---- MODULE Spec2Model ----
(***************************************************************************)
(* Mission control core of flight_controller.py: MissionContext, the nine  *)
(* MissionState classes, the frame dispatch of handle_frame and the        *)
(* threading.Timer callbacks of IgnitationState.                           *)
(*                                                                         *)
(* Time is counted in units of 100 ms.  Enum members of                    *)
(* communication_library.ids are modelled by their names (strings).        *)
(***************************************************************************)
EXTENDS Integers, Sequences, FiniteSets, TLC

VARIABLES
    state,      \* MissionContext._state: [cls, inst]; inst = FALSE when the
                \* class object itself (not an instance) was installed
    sensors,    \* MissionContext.sensors  (dict name -> value)
    servos,     \* MissionContext.servos   (dict name -> position)
    relays,     \* MissionContext.relays   (dict name -> state)
    flags,      \* bookkeeping attributes of the active Launch / Fuel /
                \* HeatingOxidizer / Landing instance
    ign,        \* attributes of the live IgnitationState instance (the one
                \* that is active or that pending timers are bound to)
    timers,     \* started threading.Timer objects that have not fired yet
    clock,      \* time.time(), relative to the entry of the live Ignitation
    sent,       \* frames handed to send_frame during the last step, in order
    last        \* what the last step was: operation, inbound frame,
                \* handler invoked, transition_to calls, exception that escaped

vars == <<state, sensors, servos, relays, flags, ign, timers, clock, sent, last>>

----------------------------------------------------------------------------
(* Bounds of the model *)

\* the clock stops advancing here (units of 100 ms)
MaxClock == 22

\* length of one clock step (units of 100 ms)
TickLen == 11

----------------------------------------------------------------------------
(* communication_library.ids and Frame (not part of src/) *)

StateNames == {"Idle", "Launch", "Fuel", "HeatingOxidizer", "Ignitation",
               "Flight", "Landing", "Landed", "Abort"}

DeviceKinds == {"SERVO", "RELAY", "SENSOR"}

Actions == {"FEED", "SERVICE", "ACK", "NACK"}

\* registry value a servo / relay reports for an operation outcome
SERVO_OPEN == 0
SERVO_CLOSE == 100
RELAY_OPEN == 1
RELAY_CLOSE == 0

\* Frame(...) as the source calls it, positionally
Frame(a1, priority, action, a4, device_type, device_id, data_type, operation, payload) ==
    [source |-> a1, priority |-> priority, action |-> action, destination |-> a4,
     device_type |-> device_type, device_id |-> device_id, data_type |-> data_type,
     operation |-> operation, payload |-> payload]

NoFrame == [action |-> "NONE"]

----------------------------------------------------------------------------
(* The hardware configuration and the registry built from it *)

ServoConfig ==
    [fuel_intake |-> [device_id |-> 0, closed_pos |-> 100],
     oxidizer_intake |-> [device_id |-> 1, closed_pos |-> 100],
     fuel_main |-> [device_id |-> 2, closed_pos |-> 100],
     oxidizer_main |-> [device_id |-> 3, closed_pos |-> 100]]

RelayConfig ==
    [oxidizer_heater |-> [device_id |-> 0],
     igniter |-> [device_id |-> 1],
     parachute |-> [device_id |-> 2]]

servo_to_id == [n \in DOMAIN ServoConfig |-> ServoConfig[n].device_id]

relays_to_id == [n \in DOMAIN RelayConfig |-> RelayConfig[n].device_id]

InitServos == [n \in DOMAIN ServoConfig |-> ServoConfig[n].closed_pos]

InitRelays == [n \in DOMAIN RelayConfig |-> 0]

\* dict iteration order: configuration order, then keys added later
ServoOrder == <<"fuel_intake", "oxidizer_intake", "fuel_main", "oxidizer_main", "SERVO">>

RelayOrder == <<"oxidizer_heater", "igniter", "parachute", "RELAY">>

\* d[key] = value on a Python dict
DictSet(d, key, value) ==
    [k \in (DOMAIN d) \cup {key} |-> IF k = key THEN value ELSE d[k]]

----------------------------------------------------------------------------
(* Python values and exceptions *)

\* Python None for the ACK timestamps
None == -1

Abs(x) == IF x < 0 THEN 0 - x ELSE x

\* c is the context while one operation runs: the program state plus what the
\* operation has emitted so far (sent), the transition_to calls it has made
\* (trans) and the exception that is propagating (exc, "none" when none is)
Ok(c) == c.exc = "none"

Raise(c, e) == [c EXCEPT !.exc = e]

FlagsNone ==
    [oxidizer_fueling |-> FALSE, fueling_complete |-> FALSE,
     fueling |-> FALSE, fueling_completed |-> FALSE, heating |-> FALSE,
     landing_complete |-> FALSE, parachute_deployed |-> FALSE]

IgnNone ==
    [live |-> FALSE, igniter_on |-> FALSE, ignition_successful |-> FALSE,
     fuel_valve_opened |-> FALSE, oxidizer_valve_opened |-> FALSE,
     fuel_ack_time |-> None, oxidizer_ack_time |-> None]

----------------------------------------------------------------------------
(* The state classes: which abstract methods each one overrides *)

AbstractMethods == {"handle_feed", "handle_nack", "handle_ack", "handle_service", "on_enter"}

Defines ==
    [Idle |-> {"on_enter", "handle_feed", "handle_nack", "handle_service", "handle_ack"},
     Launch |-> {"on_enter", "handle_nack", "handle_ack", "handle_feed", "handle_service"},
     Fuel |-> {"on_enter", "handle_nack", "handle_ack", "handle_feed"},
     HeatingOxidizer |-> {"on_enter", "handle_feed", "handle_nack", "handle_ack"},
     Ignitation |-> {"on_enter", "handle_feed", "handle_nack", "handle_ack", "handle_service"},
     Flight |-> {"on_enter", "handle_feed", "handle_nack", "handle_ack", "handle_service"},
     Landing |-> {"on_enter", "handle_feed", "handle_nack", "handle_ack"},
     Landed |-> {"on_enter"},
     Abort |-> {}]

\* cls() succeeds only when no abstract method is left (ABC); otherwise TypeError
CanInstantiate(cls) == AbstractMethods \subseteq Defines[cls]

Instance(cls) == [cls |-> cls, inst |-> TRUE]

\* the class object itself, as in transition_to(LaunchState)
ClassObject(cls) == [cls |-> cls, inst |-> FALSE]

----------------------------------------------------------------------------
(* MissionContext: send_frame, close_relay, close_servo *)

send_frame(c, frame) == [c EXCEPT !.sent = Append(@, frame)]

close_relay(c, relay_id) ==
    send_frame(c, Frame("ROCKET", "LOW", "SERVICE", "SOFTWARE", "RELAY",
                        relay_id, "FLOAT", "CLOSE", <<>>))

close_servo(c, servo_id) ==
    send_frame(c, Frame("ROCKET", "LOW", "SERVICE", "SOFTWARE", "SERVO",
                        servo_id, "FLOAT", "CLOSE", <<>>))

\* for relay in relays.keys(): if (relays[relay] == code) == eq: close_relay(relays_to_id[relay])
RECURSIVE CloseRelays(_, _, _, _)
CloseRelays(c, i, code, eq) ==
    IF i > Len(RelayOrder) \/ ~Ok(c) THEN c
    ELSE LET relay == RelayOrder[i] IN
         IF relay \notin DOMAIN c.relays \/ ((c.relays[relay] = code) # eq)
         THEN CloseRelays(c, i + 1, code, eq)
         ELSE IF relay \in DOMAIN relays_to_id
              THEN CloseRelays(close_relay(c, relays_to_id[relay]), i + 1, code, eq)
              ELSE Raise(c, "KeyError")

RECURSIVE CloseServos(_, _, _, _)
CloseServos(c, i, code, eq) ==
    IF i > Len(ServoOrder) \/ ~Ok(c) THEN c
    ELSE LET servo == ServoOrder[i] IN
         IF servo \notin DOMAIN c.servos \/ ((c.servos[servo] = code) # eq)
         THEN CloseServos(c, i + 1, code, eq)
         ELSE IF servo \in DOMAIN servo_to_id
              THEN CloseServos(close_servo(c, servo_to_id[servo]), i + 1, code, eq)
              ELSE Raise(c, "KeyError")

----------------------------------------------------------------------------
(* Entry hooks of the states that request no transition themselves *)

IdleState_on_enter(c) ==
    CloseServos(CloseRelays(c, 1, RELAY_OPEN, TRUE), 1, SERVO_OPEN, TRUE)

open_oxidizer_intake(c) ==
    LET c1 == send_frame(c, Frame("ROCKET", "HIGH", "SERVICE", "SOFTWARE", "SERVO",
                                  1, "FLOAT", "POSITION", <<0>>))
    IN [c1 EXCEPT !.flags.oxidizer_fueling = TRUE]

close_oxidizer_intake(c) ==
    send_frame(c, Frame("ROCKET", "HIGH", "SERVICE", "SOFTWARE", "SERVO",
                        1, "FLOAT", "POSITION", <<100>>))

LaunchState_on_enter(c) ==
    open_oxidizer_intake([c EXCEPT !.flags.oxidizer_fueling = FALSE,
                                   !.flags.fueling_complete = FALSE])

open_fuel_intake(c) ==
    LET c1 == send_frame(c, Frame("ROCKET", "HIGH", "SERVICE", "SOFTWARE", "SERVO",
                                  0, "FLOAT", "POSITION", <<0>>))
    IN [c1 EXCEPT !.flags.fueling = TRUE]

close_fuel_intake(c) ==
    LET c1 == send_frame(c, Frame("ROCKET", "HIGH", "SERVICE", "SOFTWARE", "SERVO",
                                  0, "FLOAT", "POSITION", <<100>>))
    IN [c1 EXCEPT !.flags.fueling = FALSE]

FuelState_on_enter(c) ==
    open_fuel_intake([c EXCEPT !.flags.fueling = FALSE,
                               !.flags.fueling_completed = FALSE])

turn_on_heater(c) ==
    send_frame(c, Frame("ROCKET", "HIGH", "SERVICE", "SOFTWARE", "RELAY",
                        0, "FLOAT", "OPEN", <<>>))

turn_off_heater(c) ==
    send_frame(c, Frame("ROCKET", "HIGH", "SERVICE", "SOFTWARE", "RELAY",
                        0, "FLOAT", "CLOSE", <<>>))

HeatingOxidizerState_on_enter(c) ==
    turn_on_heater([c EXCEPT !.flags.heating = FALSE])

deploy_parachute(c) ==
    send_frame(c, Frame("ROCKET", "HIGH", "SERVICE", "SOFTWARE", "RELAY",
                        2, "FLOAT", "OPEN", <<>>))

LandingState_on_enter(c) ==
    deploy_parachute([c EXCEPT !.flags.landing_complete = FALSE,
                               !.flags.parachute_deployed = FALSE])

\* FlightState.on_enter is pass, LandedState.on_enter prints, AbortState
\* inherits the abstract on_enter (pass)
PlainOnEnter(c, cls) ==
    CASE cls = "Idle" -> IdleState_on_enter(c)
      [] cls = "Launch" -> LaunchState_on_enter(c)
      [] cls = "Fuel" -> FuelState_on_enter(c)
      [] cls = "HeatingOxidizer" -> HeatingOxidizerState_on_enter(c)
      [] cls = "Landing" -> LandingState_on_enter(c)
      [] OTHER -> c

----------------------------------------------------------------------------
(* MissionContext.transition_to *)

\* self._state = state; self._state.context = self  (the replaced instance's
\* attributes are no longer reachable), and the call is recorded
Install(c, st) ==
    [c EXCEPT !.state = st, !.flags = FlagsNone,
              !.trans = Append(@, [to |-> st, hook |-> "running"]),
              !.log = Append(@, "transition")]

\* the record of the k-th transition_to call, once its hook has returned or raised
HookEnded(c, k) ==
    [c EXCEPT !.trans[k].hook = IF Ok(c) THEN "done" ELSE "raised"]

\* transition_to for a state whose hook requests no transition itself.
\* self._state.on_enter() on a class object calls the unbound function
\* without self, which is a TypeError
PlainTransitionTo(c, st) ==
    LET c1 == Install(c, st)
    IN HookEnded(IF st.inst THEN PlainOnEnter(c1, st.cls)
                 ELSE Raise(c1, "TypeError"), Len(c1.trans))

\* cls() is evaluated: the attempt to create an instance is recorded
New(c, cls) == [c EXCEPT !.new = Append(@, cls)]

\* transition_to(cls()): the instance is created first, which raises for a
\* class with abstract methods left
TransitionToNew(c, cls) ==
    IF CanInstantiate(cls) THEN PlainTransitionTo(New(c, cls), Instance(cls))
    ELSE Raise(New(c, cls), "TypeError")

----------------------------------------------------------------------------
(* IgnitationState: entry hook and timer callbacks *)

Timer(delay, cb, c) == [c EXCEPT !.timers = @ \cup {[cb |-> cb, due |-> c.clock + delay]}]

open_fuel_main_valve(c) ==
    send_frame(c, Frame("ROCKET", "HIGH", "SERVICE", "SOFTWARE", "SERVO",
                        2, "FLOAT", "POSITION", <<0>>))

open_oxidizer_main_valve(c) ==
    send_frame(c, Frame("ROCKET", "HIGH", "SERVICE", "SOFTWARE", "SERVO",
                        3, "FLOAT", "POSITION", <<0>>))

\* variant that starts the igniter timer at entry, without the valve check
IgnitationState_on_enter_SchedulesIgniter(c) ==
    LET c1 == [c EXCEPT !.ign = [IgnNone EXCEPT !.live = TRUE], !.clock = 0]
        pressure == IF "oxidizer_pressure" \in DOMAIN c1.sensors
                    THEN c1.sensors["oxidizer_pressure"] ELSE 0
    IN IF pressure < 40 THEN TransitionToNew(c1, "HeatingOxidizer")
       ELSE IF pressure > 65 THEN TransitionToNew(c1, "Abort")
       ELSE Timer(12, "activate_igniter",
                  Timer(9, "check_valve_timing",
                        Timer(2, "open_oxidizer_main_valve", open_fuel_main_valve(c1))))

\* variant that opens the fuel main valve before it looks at the pressure
IgnitationState_on_enter_OpensBeforeTest(c) ==
    LET c1 == open_fuel_main_valve(
                  [c EXCEPT !.ign = [IgnNone EXCEPT !.live = TRUE], !.clock = 0])
        pressure == IF "oxidizer_pressure" \in DOMAIN c1.sensors
                    THEN c1.sensors["oxidizer_pressure"] ELSE 0
    IN IF pressure < 40 THEN TransitionToNew(c1, "HeatingOxidizer")
       ELSE IF pressure > 65 THEN TransitionToNew(c1, "Abort")
       ELSE Timer(9, "check_valve_timing", Timer(2, "open_oxidizer_main_valve", c1))

IgnitationState_on_enter(c) ==
    LET c1 == [c EXCEPT !.ign = [IgnNone EXCEPT !.live = TRUE], !.clock = 0]
        pressure == IF "oxidizer_pressure" \in DOMAIN c1.sensors
                    THEN c1.sensors["oxidizer_pressure"] ELSE 0
    IN IF pressure < 40 THEN TransitionToNew(c1, "HeatingOxidizer")
       ELSE IF pressure > 65 THEN TransitionToNew(c1, "Abort")
       ELSE Timer(9, "check_valve_timing",
                  Timer(2, "open_oxidizer_main_valve", open_fuel_main_valve(c1)))

\* variant whose abort request succeeds in installing a new active state
check_valve_timing_InstallsAbort(c) ==
    IF c.ign.fuel_ack_time # None /\ c.ign.oxidizer_ack_time # None
          /\ Abs(c.ign.fuel_ack_time - c.ign.oxidizer_ack_time) <= 10
    THEN Timer(10, "check_igniter_timing", Timer(3, "activate_igniter", c))
    ELSE PlainTransitionTo(New(c, "Abort"), Instance("Abort"))

\* variant without the skew test: two recorded ACKs always pass
check_valve_timing_IgnoresSkew(c) ==
    IF c.ign.fuel_ack_time # None /\ c.ign.oxidizer_ack_time # None
    THEN Timer(10, "check_igniter_timing", Timer(3, "activate_igniter", c))
    ELSE TransitionToNew(c, "Abort")

check_valve_timing(c) ==
    IF c.ign.fuel_ack_time # None /\ c.ign.oxidizer_ack_time # None
    THEN LET delta == Abs(c.ign.fuel_ack_time - c.ign.oxidizer_ack_time) IN
         IF delta <= 10
         THEN Timer(10, "check_igniter_timing", Timer(3, "activate_igniter", c))
         ELSE TransitionToNew(c, "Abort")
    ELSE TransitionToNew(c, "Abort")

\* variant without the igniter_on test
activate_igniter_Unconditional(c) ==
    send_frame(c, Frame("ROCKET", "HIGH", "SERVICE", "SOFTWARE", "RELAY",
                        1, "FLOAT", "OPEN", <<>>))

activate_igniter(c) ==
    IF c.ign.igniter_on THEN c
    ELSE send_frame(c, Frame("ROCKET", "HIGH", "SERVICE", "SOFTWARE", "RELAY",
                             1, "FLOAT", "OPEN", <<>>))

check_igniter_timing(c) ==
    IF ~c.ign.igniter_on THEN TransitionToNew(c, "Abort") ELSE c

OnEnter(c, cls) ==
    IF cls = "Ignitation" THEN IgnitationState_on_enter(c) ELSE PlainOnEnter(c, cls)

transition_to(c, st) ==
    LET c1 == Install(c, st)
    IN HookEnded(IF st.inst THEN OnEnter(c1, st.cls)
                 ELSE Raise(c1, "TypeError"), Len(c1.trans))

----------------------------------------------------------------------------
(* handle_feed *)

\* device_name = ids.DeviceID(frame.device_type).name: the name of the kind
DeviceName(frame) == frame.device_type

\* the match statement every handle_feed holds: <registry>[device_name] = payload[0]
UpdateRegistry(c, frame) ==
    LET device_name == DeviceName(frame) IN
    IF frame.device_type \notin DeviceKinds THEN c
    ELSE IF frame.payload = <<>> THEN Raise(c, "IndexError")
    ELSE CASE frame.device_type = "SENSOR" ->
                [c EXCEPT !.sensors = DictSet(@, device_name, frame.payload[1]),
                          !.log = Append(@, "update")]
           [] frame.device_type = "SERVO" ->
                [c EXCEPT !.servos = DictSet(@, device_name, frame.payload[1]),
                          !.log = Append(@, "update")]
           [] frame.device_type = "RELAY" ->
                [c EXCEPT !.relays = DictSet(@, device_name, frame.payload[1]),
                          !.log = Append(@, "update")]

\* the point at which a handle_feed starts to evaluate its guards (the if
\* statements on device_name, registry values and flags)
Guard(c) == IF Ok(c) THEN [c EXCEPT !.log = Append(@, "guard")] ELSE c

\* variant that asks for Launch after storing the value
IdleState_handle_feed_RequestsLaunch(c, frame) ==
    LET c1 == UpdateRegistry(c, frame)
    IN IF Ok(c1) THEN transition_to(c1, ClassObject("Launch")) ELSE c1

IdleState_handle_feed(c, frame) == UpdateRegistry(c, frame)

LaunchState_handle_feed(c, frame) ==
    LET device_name == DeviceName(frame)
        c1 == Guard(UpdateRegistry(c, frame))
    IN IF ~Ok(c1) THEN c1
       ELSE IF device_name = "oxidizer_level"
            THEN IF c1.sensors["oxidizer_level"] >= 100 /\ c1.flags.oxidizer_fueling
                 THEN close_oxidizer_intake(c1) ELSE c1
       ELSE IF device_name = "oxidizer_pressure"
            THEN IF c1.flags.fueling_complete
                    /\ Abs(c1.sensors["oxidizer_pressure"] - 30) < 5
                 THEN transition_to(c1, ClassObject("Fuel")) ELSE c1
       ELSE c1

FuelState_handle_feed(c, frame) ==
    LET device_name == DeviceName(frame)
        c1 == Guard(UpdateRegistry(c, frame))
    IN IF ~Ok(c1) THEN c1
       ELSE IF device_name = "fuel_intake"
            THEN IF c1.sensors["fuel_level"] >= 100 /\ c1.flags.fueling
                 THEN close_fuel_intake(c1) ELSE c1
       ELSE c1

HeatingOxidizerState_handle_feed(c, frame) ==
    LET device_name == DeviceName(frame)
        c1 == Guard(UpdateRegistry(c, frame))
    IN IF ~Ok(c1) THEN c1
       ELSE IF device_name = "oxidizer_pressure"
            THEN IF c1.sensors["oxidizer_pressure"] >= 65 /\ c1.flags.heating
                 THEN turn_off_heater(c1) ELSE c1
       ELSE c1

\* variant that evaluates the ignition-success guard on the registry as it
\* was before the frame, and stores the value afterwards
IgnitationState_handle_feed_GuardFirst(c, frame) ==
    LET c0 == Guard(c)
        altitude == IF "altitude" \in DOMAIN c0.sensors THEN c0.sensors["altitude"] ELSE 0
        c1 == IF c0.ign.igniter_on /\ ~c0.ign.ignition_successful /\ altitude > 0
              THEN transition_to([c0 EXCEPT !.ign.ignition_successful = TRUE],
                                 ClassObject("Flight"))
              ELSE c0
    IN IF ~Ok(c1) THEN c1 ELSE UpdateRegistry(c1, frame)

IgnitationState_handle_feed(c, frame) ==
    LET c1 == Guard(UpdateRegistry(c, frame))
        altitude == IF "altitude" \in DOMAIN c1.sensors THEN c1.sensors["altitude"] ELSE 0
    IN IF ~Ok(c1) THEN c1
       ELSE IF c1.ign.igniter_on /\ ~c1.ign.ignition_successful /\ altitude > 0
            THEN transition_to([c1 EXCEPT !.ign.ignition_successful = TRUE],
                               ClassObject("Flight"))
       ELSE c1

FlightState_handle_feed(c, frame) ==
    LET device_name == DeviceName(frame)
        c0 == Guard(c)
        c1 == IF device_name = "altitude"
              THEN IF frame.payload = <<>> THEN Raise(c0, "IndexError")
                   ELSE IF frame.payload[1] < c0.sensors["altitude"]
                        THEN TransitionToNew(
                                 [c0 EXCEPT !.sensors = DictSet(@, "altitude", frame.payload[1]),
                                            !.log = Append(@, "update")],
                                 "Landing")
                        ELSE c0
              ELSE c0
    IN IF ~Ok(c1) THEN c1 ELSE UpdateRegistry(c1, frame)

LandingState_handle_feed(c, frame) ==
    LET c1 == Guard(UpdateRegistry(c, frame))
    IN IF ~Ok(c1) THEN c1
       ELSE IF c1.sensors["altitude"] <= 0
            THEN TransitionToNew([c1 EXCEPT !.flags.landing_complete = TRUE], "Landed")
       ELSE c1

\* self._state.handle_feed(frame): on a class object the frame is bound to
\* self and the frame argument is missing, a TypeError
state_handle_feed(c, frame) ==
    IF ~c.state.inst THEN Raise(c, "TypeError")
    ELSE CASE c.state.cls = "Idle" -> IdleState_handle_feed(c, frame)
           [] c.state.cls = "Launch" -> LaunchState_handle_feed(c, frame)
           [] c.state.cls = "Fuel" -> FuelState_handle_feed(c, frame)
           [] c.state.cls = "HeatingOxidizer" -> HeatingOxidizerState_handle_feed(c, frame)
           [] c.state.cls = "Ignitation" -> IgnitationState_handle_feed(c, frame)
           [] c.state.cls = "Flight" -> FlightState_handle_feed(c, frame)
           [] c.state.cls = "Landing" -> LandingState_handle_feed(c, frame)
           [] OTHER -> UpdateRegistry(c, frame)

----------------------------------------------------------------------------
(* handle_nack *)

IdleState_handle_nack(c, frame) == send_frame(c, frame)

\* variant that stops the running intake operation when it retries
Retry_handle_nack_ClearsFlag(c, frame) ==
    LET c1 == send_frame(c, Frame(frame.source, "HIGH", "SERVICE", frame.destination,
                                  frame.device_type, frame.device_id, frame.data_type,
                                  frame.operation, <<>>))
    IN [c1 EXCEPT !.flags.oxidizer_fueling = FALSE]

\* LaunchState, FuelState and HeatingOxidizerState hold the same handle_nack
Retry_handle_nack(c, frame) ==
    send_frame(c, Frame(frame.source, "HIGH", "SERVICE", frame.destination,
                        frame.device_type, frame.device_id, frame.data_type,
                        frame.operation, <<>>))

IgnitationState_handle_nack(c, frame) ==
    send_frame(c, Frame(frame.source, "HIGH", "SERVICE", frame.destination,
                        frame.device_type, frame.device_id, frame.data_type,
                        frame.operation, frame.payload))

LandingState_handle_nack(c, frame) ==
    IF frame.payload = <<>> THEN Raise(c, "IndexError")
    ELSE send_frame(c, Frame(frame.source, "HIGH", "SERVICE", frame.destination,
                             frame.device_type, frame.device_id, frame.data_type,
                             frame.operation, <<frame.payload[1]>>))

FlightState_handle_nack(c, frame) == c

state_handle_nack(c, frame) ==
    IF ~c.state.inst THEN Raise(c, "TypeError")
    ELSE CASE c.state.cls = "Idle" -> IdleState_handle_nack(c, frame)
           [] c.state.cls \in {"Launch", "Fuel", "HeatingOxidizer"} -> Retry_handle_nack(c, frame)
           [] c.state.cls = "Ignitation" -> IgnitationState_handle_nack(c, frame)
           [] c.state.cls = "Landing" -> LandingState_handle_nack(c, frame)
           [] c.state.cls = "Flight" -> FlightState_handle_nack(c, frame)
           [] OTHER -> c

----------------------------------------------------------------------------
(* handle_ack *)

FuelState_handle_ack(c, frame) ==
    IF frame.device_type = "SERVO" /\ frame.device_id = 0 /\ frame.operation = "POSITION"
    THEN IF frame.payload = <<>> THEN Raise(c, "IndexError")
         ELSE IF frame.payload[1] = 100
              THEN transition_to(c, ClassObject("HeatingOxidizer")) ELSE c
    ELSE c

HeatingOxidizerState_handle_ack(c, frame) ==
    LET heater == frame.device_type = "RELAY"
                  /\ frame.device_id = relays_to_id["oxidizer_heater"]
        c1 == IF heater /\ frame.operation = "CLOSE"
              THEN transition_to(c, ClassObject("Ignitation")) ELSE c
    IN IF ~Ok(c1) THEN c1
       ELSE IF heater /\ frame.operation = "OPEN"
            THEN [c1 EXCEPT !.flags.heating = TRUE] ELSE c1

\* variant that also records the acknowledged valve position in the registry
IgnitationState_handle_ack_RecordsPosition(c, frame) ==
    LET now == c.clock IN
    IF frame.device_type = "SERVO" /\ frame.device_id = 2
    THEN [c EXCEPT !.ign.fuel_ack_time = now, !.ign.fuel_valve_opened = TRUE,
                   !.servos = DictSet(@, "fuel_main", SERVO_OPEN)]
    ELSE c

IgnitationState_handle_ack(c, frame) ==
    LET now == c.clock IN
    IF frame.device_type = "SERVO"
    THEN IF frame.device_id = 2
         THEN [c EXCEPT !.ign.fuel_ack_time = now, !.ign.fuel_valve_opened = TRUE]
         ELSE IF frame.device_id = 3
              THEN [c EXCEPT !.ign.oxidizer_ack_time = now,
                             !.ign.oxidizer_valve_opened = TRUE]
              ELSE c
    ELSE IF frame.device_type = "RELAY" /\ frame.device_id = 1
         THEN [c EXCEPT !.ign.igniter_on = TRUE]
         ELSE c

LandingState_handle_ack(c, frame) ==
    IF frame.device_type = "RELAY" /\ frame.device_id = relays_to_id["parachute"]
    THEN [c EXCEPT !.flags.parachute_deployed = TRUE] ELSE c

\* IdleState and FlightState: pass; LaunchState: print
state_handle_ack(c, frame) ==
    IF ~c.state.inst THEN Raise(c, "TypeError")
    ELSE CASE c.state.cls = "Fuel" -> FuelState_handle_ack(c, frame)
           [] c.state.cls = "HeatingOxidizer" -> HeatingOxidizerState_handle_ack(c, frame)
           [] c.state.cls = "Ignitation" -> IgnitationState_handle_ack(c, frame)
           [] c.state.cls = "Landing" -> LandingState_handle_ack(c, frame)
           [] OTHER -> c

\* every handle_service that exists is pass
state_handle_service(c, frame) ==
    IF ~c.state.inst THEN Raise(c, "TypeError") ELSE c

----------------------------------------------------------------------------
(* MissionContext.handle_frame *)

\* action_handler: the handler registered for an action, "none" when
\* action_handler.get returns None
action_handler(action) ==
    CASE action = "FEED" -> "handle_feed"
      [] action = "SERVICE" -> "handle_service"
      [] action = "ACK" -> "handle_ack"
      [] action = "NACK" -> "handle_nack"
      [] OTHER -> "none"

\* MissionContext.handle_feed / handle_nack / handle_ack / handle_service
Dispatch(c, handler, frame) ==
    CASE handler = "handle_feed" -> state_handle_feed(c, frame)
      [] handler = "handle_nack" -> state_handle_nack(c, frame)
      [] handler = "handle_ack" -> state_handle_ack(c, frame)
      [] handler = "handle_service" -> state_handle_service(c, frame)
      [] OTHER -> c

\* what communication_manager.receive() does in one call: returns None,
\* returns a frame, or raises TimeoutError, UnregisteredCallbackError(frame)
\* or another exception
ReceiveKinds == {"none", "returned", "timeout", "unregistered", "error"}

\* the handler handle_frame invokes for a receive outcome: only the
\* except UnregisteredCallbackError branch looks one up
HandlerFor(r) ==
    IF r.kind = "unregistered" THEN action_handler(r.frame.action) ELSE "none"

handle_frame(c, r) == Dispatch(c, HandlerFor(r), r.frame)

----------------------------------------------------------------------------
(* The environment: inbound frames, seeded readings *)

\* payload values the hardware reports for a device kind
PayloadValues(kind) ==
    CASE kind = "SENSOR" -> {0, 31, 100}
      [] kind = "SERVO" -> {0}
      [] kind = "RELAY" -> {100}

FeedFrames ==
    {Frame("SOFTWARE", "LOW", "FEED", "ROCKET", "SENSOR", 0, "FLOAT", "READ", <<>>)}
    \cup UNION {{Frame("SOFTWARE", "LOW", "FEED", "ROCKET", k, 0, "FLOAT", "READ", <<v>>) :
                    v \in PayloadValues(k)} : k \in DeviceKinds}

AckFrames ==
    {Frame("SOFTWARE", "LOW", "ACK", "ROCKET", d[1], d[2], "FLOAT", d[3], d[4]) :
        d \in {<<"SERVO", 2, "POSITION", <<0>> >>, <<"SERVO", 3, "POSITION", <<0>> >>,
               <<"RELAY", 1, "OPEN", <<>> >>, <<"SERVO", 0, "POSITION", <<100>> >>,
               <<"RELAY", 0, "CLOSE", <<>> >>}}

NackFrames ==
    {Frame(a[1], "LOW", "NACK", a[2], d[1], d[2], "FLOAT", d[3], d[4]) :
        a \in {<<"SOFTWARE", "ROCKET">>, <<"ROCKET", "SOFTWARE">>},
        d \in {<<"SERVO", 1, "POSITION", <<0>> >>, <<"RELAY", 1, "OPEN", <<>> >>,
               <<"SERVO", 9, "POSITION", <<>> >>}}

ServiceFrames ==
    {Frame("SOFTWARE", "LOW", "SERVICE", "ROCKET", "SERVO", 0, "FLOAT", "POSITION", <<0>>)}

InFrames == FeedFrames \cup AckFrames \cup NackFrames \cup ServiceFrames

\* one frame of each action for the outcome in which receive returns the frame
ReturnedFrames ==
    {Frame("SOFTWARE", "LOW", a, "ROCKET", "SENSOR", 0, "FLOAT", "READ", <<100>>) :
        a \in Actions}

ReceiveOutcomes ==
    {[kind |-> k, frame |-> NoFrame] : k \in {"none", "timeout", "error"}}
    \cup {[kind |-> "returned", frame |-> f] : f \in ReturnedFrames}
    \cup {[kind |-> "unregistered", frame |-> f] : f \in InFrames}

\* stored readings <<oxidizer_pressure, altitude>> a caller has put into the
\* registry before driving the core; <<0, 0>> is what __init__ leaves
Seeds == {<<0, 0>>, <<50, 10>>, <<70, 0>>}

InitSensors(pressure, altitude) ==
    [fuel_level |-> 0, oxidizer_level |-> 0, altitude |-> altitude,
     oxidizer_pressure |-> pressure, angle |-> 2]

----------------------------------------------------------------------------
(* The state machine *)

Ctx ==
    [state |-> state, sensors |-> sensors, servos |-> servos, relays |-> relays,
     flags |-> flags, ign |-> ign, timers |-> timers, clock |-> clock,
     sent |-> <<>>, trans |-> <<>>, new |-> <<>>, log |-> <<>>,
     exc |-> "none"]

\* an IgnitationState instance that is neither active nor bound to a pending
\* timer is unreachable
IgnGarbage(c) == c.timers = {} /\ c.state # Instance("Ignitation")

Commit(c, op, frame, handler) ==
    /\ state' = c.state
    /\ sensors' = c.sensors
    /\ servos' = c.servos
    /\ relays' = c.relays
    /\ flags' = c.flags
    /\ ign' = IF IgnGarbage(c) THEN IgnNone ELSE c.ign
    /\ timers' = c.timers
    /\ clock' = IF IgnGarbage(c) THEN 0 ELSE c.clock
    /\ sent' = c.sent
    /\ last' = [op |-> op, frame |-> frame, handler |-> handler,
                trans |-> c.trans, new |-> c.new, log |-> c.log, exc |-> c.exc]

\* MissionContext.__init__: the registry is built, IdleState() is installed and
\* its entry hook runs
Init ==
    \E seed \in Seeds :
        LET c0 == [state |-> Instance("Idle"), sensors |-> InitSensors(seed[1], seed[2]),
                   servos |-> InitServos, relays |-> InitRelays, flags |-> FlagsNone,
                   ign |-> IgnNone, timers |-> {}, clock |-> 0,
                   sent |-> <<>>, trans |-> <<>>, new |-> <<>>, log |-> <<>>,
     exc |-> "none"]
            c == IdleState_on_enter(c0)
        IN /\ state = c.state
           /\ sensors = c.sensors
           /\ servos = c.servos
           /\ relays = c.relays
           /\ flags = c.flags
           /\ ign = c.ign
           /\ timers = c.timers
           /\ clock = c.clock
           /\ sent = c.sent
           /\ last = [op |-> "init", frame |-> NoFrame, handler |-> "none",
                      trans |-> c.trans, new |-> c.new, log |-> c.log, exc |-> c.exc]

\* one call of handle_frame
HandleFrame ==
    \E r \in ReceiveOutcomes :
        Commit(handle_frame(Ctx, r), r.kind, r.frame, HandlerFor(r))

\* IdleState.transition_condition, invoked from outside on the active Idle state
\* variant whose guard leads to Fuel, passing over Launch
transition_condition_SkipsLaunch(c) ==
    LET c1 == CloseServos(CloseRelays(c, 1, RELAY_CLOSE, FALSE), 1, SERVO_CLOSE, FALSE)
        is_good == /\ \A n \in DOMAIN c.relays : c.relays[n] = RELAY_CLOSE
                   /\ \A n \in DOMAIN c.servos : c.servos[n] = SERVO_CLOSE
    IN IF Ok(c1) /\ is_good THEN transition_to(c1, ClassObject("Fuel")) ELSE c1

transition_condition(c) ==
    LET c1 == CloseServos(CloseRelays(c, 1, RELAY_CLOSE, FALSE), 1, SERVO_CLOSE, FALSE)
        is_good == /\ \A n \in DOMAIN c.relays : c.relays[n] = RELAY_CLOSE
                   /\ \A n \in DOMAIN c.servos : c.servos[n] = SERVO_CLOSE
    IN IF Ok(c1) /\ is_good THEN transition_to(c1, ClassObject("Launch")) ELSE c1

TransitionCondition ==
    /\ state = Instance("Idle")
    /\ Commit(transition_condition(Ctx), "transition_condition", NoFrame, "none")

\* transition_to(cls()) called from outside, at a moment when no timer of an
\* earlier Ignitation is pending; cls() raises for a class that is abstract
CallTransitionTo ==
    \E cls \in StateNames :
        /\ timers = {}
        /\ Commit(IF CanInstantiate(cls)
                  THEN transition_to(New(Ctx, cls), Instance(cls))
                  ELSE Raise(New(Ctx, cls), "TypeError"),
                  "transition_to", NoFrame, "none")

\* a started timer whose delay has passed runs its callback; timers run in
\* the order of their delays
Due(cb) ==
    {t \in timers : /\ t.cb = cb
                    /\ t.due <= clock
                    /\ \A u \in timers : t.due <= u.due}

\* the context a callback starts from: its timer has expired
Expired(t) == [Ctx EXCEPT !.timers = @ \ {t}]

OpenOxidizerMainValve ==
    \E t \in Due("open_oxidizer_main_valve") :
        Commit(open_oxidizer_main_valve(Expired(t)), t.cb, NoFrame, "none")

CheckValveTiming ==
    \E t \in Due("check_valve_timing") :
        Commit(check_valve_timing(Expired(t)), t.cb, NoFrame, "none")

ActivateIgniter ==
    \E t \in Due("activate_igniter") :
        Commit(activate_igniter(Expired(t)), t.cb, NoFrame, "none")

CheckIgniterTiming ==
    \E t \in Due("check_igniter_timing") :
        Commit(check_igniter_timing(Expired(t)), t.cb, NoFrame, "none")

\* time passes while timers are pending; a callback whose delay has passed
\* runs before the clock moves on
Tick ==
    /\ timers # {}
    /\ \A t \in timers : t.due > clock
    /\ clock + TickLen <= MaxClock
    /\ clock' = clock + TickLen
    /\ sent' = <<>>
    /\ last' = [op |-> "tick", frame |-> NoFrame, handler |-> "none",
                trans |-> <<>>, new |-> <<>>, log |-> <<>>, exc |-> "none"]
    /\ UNCHANGED <<state, sensors, servos, relays, flags, ign, timers>>

Next ==
    \/ HandleFrame
    \/ TransitionCondition
    \/ CallTransitionTo
    \/ OpenOxidizerMainValve
    \/ CheckValveTiming
    \/ ActivateIgniter
    \/ CheckIgniterTiming
    \/ Tick

Spec == Init /\ [][Next]_vars

\* the mission as run() drives it: handle_frame is called again and again,
\* and nothing else calls into the core
RunNext == HandleFrame

RunSpec == Init /\ [][RunNext]_vars /\ WF_vars(HandleFrame)

----------------------------------------------------------------------------
(* What the last step did *)

\* the last step dispatched an inbound frame of this action to the active state
Dispatched(action) == last.op = "unregistered" /\ last.frame.action = action

\* handle_frame obtained a frame from receive in the last step
Received == last.op \in {"returned", "unregistered"}

\* the last step ran the entry hook of a newly installed Ignitation instance
IgnitationEntered ==
    \E i \in 1..Len(last.trans) : last.trans[i].to = Instance("Ignitation")

\* the callbacks IgnitationState hands to threading.Timer
TimerCallbacks ==
    {"open_oxidizer_main_valve", "check_valve_timing", "activate_igniter",
     "check_igniter_timing"}

\* the values handle_frame reports for what receive produced
HandleFrameOps == {r.kind : r \in ReceiveOutcomes}

\* every relay is recorded CLOSE and every servo at its closed position
AllClosed ==
    /\ \A n \in DOMAIN relays : relays[n] = RELAY_CLOSE
    /\ \A n \in DOMAIN servos : servos[n] = SERVO_CLOSE

\* the last step emitted a command for this device with this operation and payload
Emitted(kind, id, operation, payload) ==
    \E i \in 1..Len(sent) :
        /\ sent[i].device_type = kind
        /\ sent[i].device_id = id
        /\ sent[i].operation = operation
        /\ sent[i].payload = payload

\* the last step dispatched an ACK for this device and operation
Acked(kind, id, operation) ==
    /\ Dispatched("ACK")
    /\ last.frame.device_type = kind
    /\ last.frame.device_id = id
    /\ last.frame.operation = operation

\* both main-valve ACKs have been recorded by the Ignitation instance
ValveAcksRecorded == ign.fuel_ack_time # None /\ ign.oxidizer_ack_time # None

\* the last step emitted a main-valve open command or the igniter command
IgnitionCommandEmitted ==
    \/ Emitted("SERVO", servo_to_id["fuel_main"], "POSITION", <<SERVO_OPEN>>)
    \/ Emitted("SERVO", servo_to_id["oxidizer_main"], "POSITION", <<SERVO_OPEN>>)
    \/ Emitted("RELAY", relays_to_id["igniter"], "OPEN", <<>>)

\* the order of the mission: each phase and the phases that may follow it
MissionOrder ==
    {<<"Idle", "Launch">>, <<"Launch", "Fuel">>, <<"Fuel", "HeatingOxidizer">>,
     <<"HeatingOxidizer", "Ignitation">>, <<"Ignitation", "Flight">>,
     <<"Flight", "Landing">>, <<"Landing", "Landed">>,
     <<"Ignitation", "HeatingOxidizer">>, <<"Ignitation", "Abort">>}

\* the last step evaluated cls() to pass the new instance to transition_to
Requested(cls) == \E i \in 1..Len(last.new) : last.new[i] = cls

\* the registry dict of a device kind
Registry(kind) ==
    CASE kind = "SENSOR" -> sensors
      [] kind = "SERVO" -> servos
      [] kind = "RELAY" -> relays

\* (device kind, device id) pairs the configuration registers
Registered ==
    {<<"SERVO", servo_to_id[n]>> : n \in DOMAIN servo_to_id}
    \cup {<<"RELAY", relays_to_id[n]>> : n \in DOMAIN relays_to_id}

\* the Fuel state is never the active state: LaunchState never sets
\* fueling_complete and no FEED is named "oxidizer_pressure"
FuelNeverActive == state.cls # "Fuel"

\* the last step dispatched a FEED of a sensor reading with this value
SensorFed(value) ==
    /\ Dispatched("FEED")
    /\ last.frame.device_type = "SENSOR"
    /\ last.frame.payload = <<value>>

\* HeatingOxidizer is never the active state: HeatingOxidizerState() raises at
\* the one site that builds it, and the site that passes the class is in Fuel
HeatingOxidizerNeverActive == state.cls # "HeatingOxidizer"

\* Landing is never the active state: LandingState() raises in Flight
LandingNeverActive == state.cls # "Landing"

\* Landed and Abort are never the active state: LandedState() and AbortState()
\* raise at every site that would install them
TerminalNeverActive == state.cls \notin {"Landed", "Abort"}

----------------------------------------------------------------------------
(* Claims *)

\* C1: if the stored oxidizer_pressure is > 65 when Ignitation's entry hook
\* runs, the active state after the hook is Abort, and that Ignitation state
\* has emitted no command and scheduled no timer.
C1_OverpressureAborts ==
    (IgnitationEntered /\ sensors["oxidizer_pressure"] > 65)
        => (state.cls = "Abort" /\ sent = <<>> /\ timers = {})

\* C3: after a FEED frame has been handled, in whatever mission state is
\* active, the registry slot of the frame's device kind, keyed by the name of
\* the kind, holds payload[0] of that frame.
C3_FeedIsStored ==
    (Dispatched("FEED") /\ last.frame.payload # <<>>)
        => LET kind == last.frame.device_type IN
           /\ kind \in DOMAIN Registry(kind)
           /\ Registry(kind)[kind] = last.frame.payload[1]

\* C4: registry values change only in a step that handles an inbound FEED
\* frame; command emission, entry hooks, timer callbacks and the handling of
\* ACK, NACK and SERVICE frames leave the registry as it is.
C4_RegistryOnlyOnFeed ==
    [][(sensors' # sensors \/ servos' # servos \/ relays' # relays)
          => (last'.op = "unregistered" /\ last'.frame.action = "FEED")]_vars

\* C4 witness: a NACK was answered with a retry frame while the registry held
\* a value written by an earlier FEED.
C4_Witness ==
    /\ Dispatched("NACK")
    /\ Len(sent) = 1
    /\ "SERVO" \in DOMAIN servos

\* C5: for every NACK frame N dispatched to the active state, in every mission
\* state, exactly one retry frame R is emitted, with R.source = N.destination,
\* R.destination = N.source and the device kind, device id and operation of N.
C5_NackRetried ==
    Dispatched("NACK")
        => /\ Len(sent) = 1
           /\ sent[1].source = last.frame.destination
           /\ sent[1].destination = last.frame.source
           /\ sent[1].device_type = last.frame.device_type
           /\ sent[1].device_id = last.frame.device_id
           /\ sent[1].operation = last.frame.operation

\* C6: every call of transition_to installs the new state and then runs that
\* state's entry hook once, to completion.
C6_EntryHookCompletes ==
    \A i \in 1..Len(last.trans) : last.trans[i].hook = "done"

\* C7: after init the active state is always a usable instance of one of the
\* nine mission states, never a value whose handlers cannot be invoked.
C7_ActiveStateUsable ==
    state.cls \in StateNames /\ state.inst

\* C8: every frame handed to send_frame has source ROCKET, destination
\* SOFTWARE and action SERVICE; its priority is HIGH unless it is a CLOSE
\* command of the close_relay / close_servo helpers, which use LOW.
C8_OutboundAddressing ==
    \A i \in 1..Len(sent) :
        /\ sent[i].source = "ROCKET"
        /\ sent[i].destination = "SOFTWARE"
        /\ sent[i].action = "SERVICE"
        /\ \/ sent[i].priority = "HIGH"
           \/ sent[i].priority = "LOW" /\ sent[i].operation = "CLOSE"

\* C9: every outbound SERVICE frame names a (device kind, device id) pair that
\* the registry built from the configuration holds, retry frames included.
C9_OutboundDeviceRegistered ==
    \A i \in 1..Len(sent) :
        sent[i].action = "SERVICE"
            => <<sent[i].device_type, sent[i].device_id>> \in Registered

\* C10: every frame handle_frame obtains from receive is passed to the active
\* state's handler that its action selects; none is dropped undispatched.
C10_ReceivedIsDispatched ==
    Received => (last.handler = action_handler(last.frame.action)
                 /\ last.handler # "none")

\* C11: an exception raised inside a state's frame handler, or inside an entry
\* hook run by a transition that handler requested, never leaves handle_frame.
C11_HandlerExceptionContained ==
    last.op \in ReceiveKinds => last.exc = "none"

\* C12: a mission started by init and driven only by run() / handle_frame, in
\* a cooperative environment and under fair scheduling, eventually has Landed
\* as its active state.
C12_ReachesLanded == <>(state.cls = "Landed")

\* C13: in a freshly entered Launch state, once a sensor FEED of 100 (the
\* oxidizer level) has been handled, handling a sensor FEED of 31 (the
\* oxidizer pressure) leaves Fuel as the active state, Fuel's entry hook having
\* emitted the command that opens fuel_intake.
C13_LaunchScriptReachesFuel ==
    [][(/\ state = Instance("Launch")
        /\ flags.oxidizer_fueling
        /\ SensorFed(100)
        /\ SensorFed(31)')
          => /\ state' = Instance("Fuel")
             /\ \E i \in 1..Len(sent') :
                    /\ sent'[i].device_type = "SERVO"
                    /\ sent'[i].device_id = servo_to_id["fuel_intake"]]_vars

\* C14: if the stored oxidizer_pressure is < 40 when Ignitation's entry hook
\* runs, then at the end of that step the active state is HeatingOxidizer, its
\* entry hook has emitted RELAY OPEN for the heater, and the Ignitation state
\* has emitted no command and scheduled no timer.
C14_UnderpressureReheats ==
    (IgnitationEntered /\ sensors["oxidizer_pressure"] < 40)
        => /\ state = Instance("HeatingOxidizer")
           /\ Len(sent) = 1
           /\ sent[1].device_type = "RELAY"
           /\ sent[1].device_id = relays_to_id["oxidizer_heater"]
           /\ sent[1].operation = "OPEN"
           /\ timers = {}

\* C15: when the valve-timing check of an Ignitation state fires, the active
\* state becomes Abort if a main-valve ACK has not been recorded or the two
\* recorded ACK times differ by more than 1.0 s; otherwise no abort happens and
\* igniter activation (+0.3 s) and the igniter-timing check (+1.0 s) are
\* scheduled.
C15_ValveTimingCheck ==
    [][last'.op = "check_valve_timing"
          => IF \/ ign.fuel_ack_time = None
                \/ ign.oxidizer_ack_time = None
                \/ Abs(ign.fuel_ack_time - ign.oxidizer_ack_time) > 10
             THEN state'.cls = "Abort"
             ELSE /\ state'.cls # "Abort"
                  /\ [cb |-> "activate_igniter", due |-> clock + 3] \in timers'
                  /\ [cb |-> "check_igniter_timing", due |-> clock + 10] \in timers']_vars

\* C16: in Flight, handling a FEED makes Landing the active state if and only
\* if it is an altitude reading strictly less than the stored altitude; any
\* other FEED leaves Flight the active state.
C16_ApogeeDetection ==
    [][(state = Instance("Flight") /\ Dispatched("FEED")')
          => LET frame == last'.frame IN
             (state'.cls = "Landing")
                 <=> /\ frame.device_type = "SENSOR"
                     /\ frame.payload # <<>>
                     /\ frame.payload[1] < sensors["altitude"]]_vars

\* C17: entering Landing emits RELAY OPEN for the parachute (device id 2); in
\* Landing an ACK for the parachute relay sets parachute_deployed without
\* changing the active state, and an altitude FEED with a value <= 0 sets
\* landing_complete and makes Landed the active state.
C17_LandingSequence ==
    [][/\ Requested("Landing")'
          => /\ state' = Instance("Landing")
             /\ \E i \in 1..Len(sent') :
                    /\ sent'[i].device_type = "RELAY"
                    /\ sent'[i].device_id = relays_to_id["parachute"]
                    /\ sent'[i].operation = "OPEN"
       /\ (/\ state = Instance("Landing")
           /\ Dispatched("ACK")'
           /\ last'.frame.device_type = "RELAY"
           /\ last'.frame.device_id = relays_to_id["parachute"])
          => (flags'.parachute_deployed /\ state' = state)
       /\ (state = Instance("Landing") /\ SensorFed(0)')
          => (flags'.landing_complete /\ state'.cls = "Landed")]_vars

\* C20: a timer callback that fires after the Ignitation state that scheduled
\* it has been replaced as the active state has no effect: it emits no frame
\* and requests no transition.
C20_StaleTimerHasNoEffect ==
    [][(/\ last'.op \in {"open_oxidizer_main_valve", "check_valve_timing",
                         "activate_igniter", "check_igniter_timing"}
        /\ state # Instance("Ignitation"))
          => /\ sent' = <<>>
             /\ last'.new = <<>>
             /\ last'.trans = <<>>
             /\ state' = state]_vars

\* C21: mutations of the active state by timer callbacks and by handlers are
\* serialized. No timer callback ever executes transition_to or writes the
\* active state, a state's flags or the registry, so no handler can run
\* transition_to from the same prior state as a callback or observe a
\* half-made update of a callback.
C21_CallbacksLeaveStateAlone ==
    [][last'.op \in TimerCallbacks
          => /\ state' = state
             /\ flags' = flags
             /\ last'.trans = <<>>
             /\ <<sensors', servos', relays'>> = <<sensors, servos, relays>>]_vars

\* C21 witness: the valve-timing check has just requested Abort while the
\* Ignitation instance is in a state from which the next FEED installs Flight.
C21_Witness ==
    /\ last.op = "check_valve_timing"
    /\ Requested("Abort")
    /\ state = Instance("Ignitation")
    /\ ign.igniter_on /\ ~ign.ignition_successful
    /\ sensors["altitude"] > 0

\* C22: without an outside call of transition_condition the active state stays
\* Idle under every inbound frame: a call of handle_frame made while the Idle
\* instance is active leaves it active, executes no transition_to and
\* constructs no state, whatever receive produced.
C22_IdleIgnoresFrames ==
    [][(state = Instance("Idle") /\ last'.op \in HandleFrameOps)
          => /\ state' = state
             /\ last'.trans = <<>>
             /\ last'.new = <<>>]_vars

\* C22 witness: Idle has handled a FEED while every relay and servo is recorded
\* closed, the situation in which the guard of transition_condition would pass.
C22_Witness ==
    /\ state = Instance("Idle")
    /\ Dispatched("FEED")
    /\ last.frame.device_type = "SENSOR"
    /\ last.exc = "none"
    /\ AllClosed

\* C23: when transition_condition is invoked in Idle, Launch becomes the
\* active state with its entry hook run once exactly when every relay is
\* recorded CLOSE and every servo at its closed position; otherwise Idle stays
\* active and no transition is made.
C23_GuardedLaunchEntry ==
    [][last'.op = "transition_condition"
          => IF AllClosed
             THEN /\ state' = Instance("Launch")
                  /\ last'.trans = <<[to |-> Instance("Launch"), hook |-> "done"]>>
             ELSE /\ state' = state
                  /\ last'.trans = <<>>]_vars

\* C24: on a NACK in an actuation-driving state (Launch, Fuel,
\* HeatingOxidizer, Ignitation, Landing) the retry frame has priority HIGH,
\* action SERVICE and the device kind, device id and operation of the NACK;
\* its payload is empty, except in Ignitation, where it is the NACK's payload.
C24_RetryForm ==
    (/\ Dispatched("NACK")
     /\ state.cls \in {"Launch", "Fuel", "HeatingOxidizer", "Ignitation", "Landing"})
        => /\ Len(sent) = 1
           /\ sent[1].priority = "HIGH"
           /\ sent[1].action = "SERVICE"
           /\ sent[1].device_type = last.frame.device_type
           /\ sent[1].device_id = last.frame.device_id
           /\ sent[1].operation = last.frame.operation
           /\ sent[1].payload = IF state.cls = "Ignitation"
                                THEN last.frame.payload ELSE <<>>

\* C25: HeatingOxidizer is entered with RELAY OPEN emitted for the heater;
\* the ACK of heater OPEN sets heating; with heating set, an oxidizer_pressure
\* FEED >= 65 emits RELAY CLOSE for the heater; the ACK of heater CLOSE makes
\* Ignitation the active state with its entry hook run; and heater CLOSE is
\* never emitted while heating is false.
C25_HeatingSequence ==
    [][/\ Requested("HeatingOxidizer")'
          => /\ state' = Instance("HeatingOxidizer")
             /\ Emitted("RELAY", relays_to_id["oxidizer_heater"], "OPEN", <<>>)'
       /\ (state = Instance("HeatingOxidizer")
           /\ Acked("RELAY", relays_to_id["oxidizer_heater"], "OPEN")')
          => flags'.heating
       /\ (state = Instance("HeatingOxidizer") /\ flags.heating /\ SensorFed(100)')
          => Emitted("RELAY", relays_to_id["oxidizer_heater"], "CLOSE", <<>>)'
       /\ (state = Instance("HeatingOxidizer")
           /\ Acked("RELAY", relays_to_id["oxidizer_heater"], "CLOSE")')
          => /\ state' = Instance("Ignitation")
             /\ \E i \in 1..Len(last'.trans) :
                    last'.trans[i] = [to |-> Instance("Ignitation"), hook |-> "done"]
       /\ (state.cls = "HeatingOxidizer" /\ ~flags.heating)
          => ~Emitted("RELAY", relays_to_id["oxidizer_heater"], "CLOSE", <<>>)']_vars

\* C26: Fuel can be entered, and in Fuel HeatingOxidizer becomes the active
\* state exactly when an ACK arrives for SERVO device_id 0 with operation
\* POSITION and payload[0] = 100; no other frame leaves Fuel.
C26_FuelLeavesOnIntakeAck ==
    [][/\ Requested("Fuel")' => state' = Instance("Fuel")
       /\ (state = Instance("Fuel") /\ last'.op \in HandleFrameOps)
          => IF /\ Acked("SERVO", 0, "POSITION")'
                /\ last'.frame.payload # <<>>
                /\ last'.frame.payload[1] = 100
             THEN state' = Instance("HeatingOxidizer")
             ELSE state' = state]_vars

\* C27: entering Fuel emits SERVO POSITION 0 to fuel_intake (device 0) and
\* sets fueling; then a fuel_level FEED that leaves the stored level >= 100
\* while fueling is set emits SERVO POSITION 100 to device 0 and clears
\* fueling, and the close command is not emitted while fueling is clear.
C27_FuelIntakeSequence ==
    [][/\ Requested("Fuel")'
          => /\ state' = Instance("Fuel")
             /\ Emitted("SERVO", servo_to_id["fuel_intake"], "POSITION", <<SERVO_OPEN>>)'
             /\ flags'.fueling
       /\ (state = Instance("Fuel") /\ flags.fueling /\ SensorFed(100)')
          => /\ Emitted("SERVO", servo_to_id["fuel_intake"], "POSITION", <<SERVO_CLOSE>>)'
             /\ ~flags'.fueling
       /\ (state.cls = "Fuel" /\ ~flags.fueling /\ last'.op \in HandleFrameOps)
          => ~Emitted("SERVO", servo_to_id["fuel_intake"], "POSITION", <<SERVO_CLOSE>>)']_vars

\* C28: entering Launch emits SERVO POSITION 0 to oxidizer_intake (device 1)
\* and leaves oxidizer_fueling true and fueling_complete false; thereafter
\* each oxidizer_level FEED with value >= 100 while oxidizer_fueling is true
\* emits SERVO POSITION 100 to device 1.
C28_OxidizerIntakeSequence ==
    [][/\ (\E i \in 1..Len(last'.trans) : last'.trans[i].to.cls = "Launch")
          => /\ Emitted("SERVO", servo_to_id["oxidizer_intake"], "POSITION", <<SERVO_OPEN>>)'
             /\ flags'.oxidizer_fueling
             /\ ~flags'.fueling_complete
       /\ (state.cls = "Launch" /\ flags.oxidizer_fueling /\ SensorFed(100)')
          => Emitted("SERVO", servo_to_id["oxidizer_intake"], "POSITION", <<SERVO_CLOSE>>)']_vars

\* C29 (as stated): when Ignitation is entered with 40 <= oxidizer_pressure
\* <= 65, fuel_main POSITION 0 is emitted at entry, oxidizer_main POSITION 0 by
\* the +0.2 s callback and igniter RELAY OPEN by the igniter callback after
\* it; the igniter callback and the igniter-timing check are scheduled only by
\* a valve-timing check that passed; and while that Ignitation sequence is
\* live no step whatever emits RELAY OPEN for the igniter unless both
\* main-valve ACKs were recorded.
C29_IgniterNeverWithoutValveAcks ==
    [][/\ (IgnitationEntered' /\ sensors["oxidizer_pressure"] \in 40..65)
          => /\ state' = Instance("Ignitation")
             /\ Len(sent') = 1
             /\ Emitted("SERVO", servo_to_id["fuel_main"], "POSITION", <<SERVO_OPEN>>)'
             /\ timers' = {[cb |-> "open_oxidizer_main_valve", due |-> 2],
                           [cb |-> "check_valve_timing", due |-> 9]}
       /\ last'.op = "open_oxidizer_main_valve"
          => /\ Len(sent') = 1
             /\ Emitted("SERVO", servo_to_id["oxidizer_main"], "POSITION", <<SERVO_OPEN>>)'
       /\ (\E t \in timers' \ timers : t.cb \in {"activate_igniter", "check_igniter_timing"})
          => /\ last'.op = "check_valve_timing"
             /\ ValveAcksRecorded
             /\ Abs(ign.fuel_ack_time - ign.oxidizer_ack_time) <= 10
             /\ timers' \ timers = {[cb |-> "activate_igniter", due |-> clock + 3],
                                     [cb |-> "check_igniter_timing", due |-> clock + 10]}
       /\ last'.op = "activate_igniter"
          => /\ \A t \in timers : t.cb # "open_oxidizer_main_valve"
             /\ ValveAcksRecorded
             /\ ign.igniter_on
                \/ Emitted("RELAY", relays_to_id["igniter"], "OPEN", <<>>)'
       /\ (/\ ign.live
           /\ sensors["oxidizer_pressure"] \in 40..65
           /\ Emitted("RELAY", relays_to_id["igniter"], "OPEN", <<>>)')
          => ValveAcksRecorded]_vars

\* C29 (amended): the same sequence and scheduling, with the last part limited
\* to the sequence's own commands: apart from the retry that answers a NACK,
\* RELAY OPEN for the igniter is emitted only by the igniter callback, hence
\* only after both main-valve ACKs were recorded.
C29_IgnitionSequence ==
    [][/\ (IgnitationEntered' /\ sensors["oxidizer_pressure"] \in 40..65)
          => /\ state' = Instance("Ignitation")
             /\ Len(sent') = 1
             /\ Emitted("SERVO", servo_to_id["fuel_main"], "POSITION", <<SERVO_OPEN>>)'
             /\ timers' = {[cb |-> "open_oxidizer_main_valve", due |-> 2],
                           [cb |-> "check_valve_timing", due |-> 9]}
       /\ last'.op = "open_oxidizer_main_valve"
          => /\ Len(sent') = 1
             /\ Emitted("SERVO", servo_to_id["oxidizer_main"], "POSITION", <<SERVO_OPEN>>)'
       /\ (\E t \in timers' \ timers : t.cb \in {"activate_igniter", "check_igniter_timing"})
          => /\ last'.op = "check_valve_timing"
             /\ ValveAcksRecorded
             /\ Abs(ign.fuel_ack_time - ign.oxidizer_ack_time) <= 10
             /\ timers' \ timers = {[cb |-> "activate_igniter", due |-> clock + 3],
                                     [cb |-> "check_igniter_timing", due |-> clock + 10]}
       /\ last'.op = "activate_igniter"
          => /\ \A t \in timers : t.cb # "open_oxidizer_main_valve"
             /\ ValveAcksRecorded
             /\ ign.igniter_on
                \/ Emitted("RELAY", relays_to_id["igniter"], "OPEN", <<>>)'
       /\ (/\ ign.live
           /\ Emitted("RELAY", relays_to_id["igniter"], "OPEN", <<>>)'
           /\ last'.handler # "handle_nack")
          => /\ last'.op = "activate_igniter"
             /\ ValveAcksRecorded]_vars

\* C29 witness: the igniter callback has just emitted RELAY OPEN for the
\* igniter, in Ignitation, with both main-valve ACKs recorded.
C29_Witness ==
    /\ last.op = "activate_igniter"
    /\ state = Instance("Ignitation")
    /\ Emitted("RELAY", relays_to_id["igniter"], "OPEN", <<>>)
    /\ ValveAcksRecorded
    /\ sensors["oxidizer_pressure"] \in 40..65

\* C30: when the igniter-timing check fires with igniter_on false, the active
\* state becomes Abort; with igniter_on true the check changes neither the
\* active state nor any flag and emits nothing.
C30_IgniterTimingCheck ==
    [][last'.op = "check_igniter_timing"
          => IF ~ign.igniter_on
             THEN state' = Instance("Abort")
             ELSE /\ state' = state
                  /\ flags' = flags
                  /\ sent' = <<>>
                  /\ last'.trans = <<>>]_vars

\* C31: in Ignitation, once igniter_on is set and ignition_successful is not,
\* a FEED carrying a positive altitude reading sets ignition_successful and
\* makes Flight the active state; while igniter_on is false no FEED leaves
\* Ignitation.
C31_IgnitionSuccess ==
    [][/\ (/\ state = Instance("Ignitation")
           /\ ign.igniter_on /\ ~ign.ignition_successful
           /\ SensorFed(100)')
          => /\ ign'.ignition_successful
             /\ state' = Instance("Flight")
       /\ (state = Instance("Ignitation") /\ ~ign.igniter_on /\ Dispatched("FEED")')
          => state' = state]_vars

\* C32 (as stated): each call of handle_frame handles the frame it received,
\* and for every FEED frame in every state the guard checks of the state and
\* any transition they trigger are evaluated only after the registry has been
\* updated with the payload[0] of that frame.
C32_GuardsAfterRegistryUpdate ==
    [][Dispatched("FEED")'
          => /\ last'.handler = "handle_feed"
             /\ \A i \in 1..Len(last'.log) :
                    last'.log[i] \in {"guard", "transition"}
                        => \E j \in 1..(i - 1) : last'.log[j] = "update"]_vars

\* C32 (amended): each call of handle_frame handles the frame it received; in
\* every state but Flight the guard checks and any transition they trigger
\* are evaluated only after the registry update for the frame; in Flight the
\* guard is evaluated first, on the registry as it was before the frame, and
\* a transition still comes only after an update.
C32_GuardsAfterUpdateExceptFlight ==
    [][Dispatched("FEED")'
          => /\ last'.handler = "handle_feed"
             /\ \A i \in 1..Len(last'.log) :
                    \/ last'.log[i] = "update"
                    \/ last'.log[i] = "guard" /\ state = Instance("Flight") /\ i = 1
                    \/ \E j \in 1..(i - 1) : last'.log[j] = "update"
             /\ (state = Instance("Flight")
                 /\ last'.frame.device_type \in DeviceKinds
                 /\ last'.frame.payload # <<>>)
                => last'.log = <<"guard", "update">>]_vars

\* C32 witness: a FEED handled in Ignitation has stored its value, then
\* evaluated the ignition-success guard, then executed the transition.
C32_Witness ==
    /\ Dispatched("FEED")
    /\ last.log = <<"update", "guard", "transition">>
    /\ Registry(last.frame.device_type)[last.frame.device_type] = last.frame.payload[1]

\* C33: on entering Idle the entry hook completes and emits exactly one close
\* command for each relay and each servo whose last-known registry value is
\* not the closed one, and none for a device that is already closed; on a
\* registry in which everything is closed it emits nothing.
C33_IdleEntryClosesWhatIsOpen ==
    [][(\E i \in 1..Len(last'.trans) : last'.trans[i].to = Instance("Idle"))
          => /\ last'.exc = "none"
             /\ Len(sent') = Cardinality({n \in DOMAIN relays : relays[n] # RELAY_CLOSE})
                              + Cardinality({n \in DOMAIN servos : servos[n] # SERVO_CLOSE})
             /\ \A n \in DOMAIN relays \cap DOMAIN relays_to_id :
                    relays[n] # RELAY_CLOSE
                        => Emitted("RELAY", relays_to_id[n], "CLOSE", <<>>)'
             /\ \A n \in DOMAIN servos \cap DOMAIN servo_to_id :
                    servos[n] # SERVO_CLOSE
                        => Emitted("SERVO", servo_to_id[n], "CLOSE", <<>>)']_vars

\* C34 (as stated): whenever the valve-timing check runs with both main-valve
\* ACK times recorded, the two times differ by at most 1.0 s, so the
\* skew-exceeded Abort branch is never taken and every Abort the check decides
\* is due to a missing ACK.
C34_SkewBranchNeverTaken ==
    [][last'.op = "check_valve_timing"
          => /\ ValveAcksRecorded
                => Abs(ign.fuel_ack_time - ign.oxidizer_ack_time) <= 10
             /\ Requested("Abort")' => ~ValveAcksRecorded]_vars

\* C34 (amended): the check runs no earlier than 0.9 s after entry; recorded
\* ACK times lie between the entry and the moment the check actually runs, so
\* they differ by at most that delay; the check decides Abort exactly when an
\* ACK is missing or the skew exceeds 1.0 s, and the latter needs a check that
\* ran more than 1.0 s after entry.
C34_SkewBoundedByCheckDelay ==
    [][last'.op = "check_valve_timing"
          => /\ clock >= 9
             /\ ValveAcksRecorded
                => /\ ign.fuel_ack_time \in 0..clock
                   /\ ign.oxidizer_ack_time \in 0..clock
             /\ Requested("Abort")'
                <=> \/ ~ValveAcksRecorded
                    \/ Abs(ign.fuel_ack_time - ign.oxidizer_ack_time) > 10
             /\ (Requested("Abort")' /\ ValveAcksRecorded) => clock > 10]_vars

\* C34 witness: the valve-timing check has decided Abort although both
\* main-valve ACKs were recorded, their times more than 1.0 s apart.
C34_Witness ==
    /\ last.op = "check_valve_timing"
    /\ Requested("Abort")
    /\ ValveAcksRecorded
    /\ Abs(ign.fuel_ack_time - ign.oxidizer_ack_time) > 10

\* C35: the main-valve open commands (SERVO id 2 and id 3, POSITION 0) and the
\* igniter RELAY OPEN command are emitted by an Ignitation state's entry hook
\* or timers only if the stored oxidizer_pressure at that state's entry was
\* within [40, 65]; an Ignitation entered outside that window emits none of
\* them and starts no timer. The stored pressure never changes after entry.
C35_IgnitionOnlyInPressureWindow ==
    [][/\ sensors'["oxidizer_pressure"] = sensors["oxidizer_pressure"]
       /\ ((IgnitationEntered' \/ last'.op \in TimerCallbacks) /\ IgnitionCommandEmitted')
          => sensors["oxidizer_pressure"] \in 40..65
       /\ (IgnitationEntered' /\ sensors["oxidizer_pressure"] \notin 40..65)
          => (~IgnitionCommandEmitted' /\ timers' = {})]_vars

\* C35 witness: Ignitation has been entered with a stored pressure above 65,
\* and has emitted nothing and started no timer.
C35_Witness ==
    /\ IgnitationEntered
    /\ sensors["oxidizer_pressure"] > 65
    /\ ~IgnitionCommandEmitted
    /\ timers = {}

C38_MissionOrder ==
    [][last'.op # "transition_to"
          => /\ state'.cls = state.cls \/ <<state.cls, state'.cls>> \in MissionOrder
             /\ \A i \in 1..Len(last'.trans) :
                    <<(IF i = 1 THEN state.cls ELSE last'.trans[i - 1].to.cls),
                      last'.trans[i].to.cls>> \in MissionOrder]_vars

\* C38 witness: a FEED handled in Ignitation has executed the transition to
\* Flight.
C38_Witness ==
    /\ Dispatched("FEED")
    /\ Len(last.trans) = 1
    /\ state.cls = "Flight"
    /\ ign.ignition_successful

\* C39: handling a NACK frame in any state leaves the active state, the flags
\* of the state, the ACK records of Ignitation and all registry values
\* unchanged and starts no timer; its only effect is at most one outbound
\* frame. What is sent depends on the active state and the frame alone, not
\* on earlier NACKs: Idle, Launch and Ignitation answer every NACK with one
\* frame, however many came before.
C39_NackHasNoSideEffect ==
    [][Dispatched("NACK")'
          => /\ <<state', flags', ign', timers', clock'>> = <<state, flags, ign, timers, clock>>
             /\ <<sensors', servos', relays'>> = <<sensors, servos, relays>>
             /\ last'.trans = <<>> /\ last'.new = <<>>
             /\ Len(sent') <= 1
             /\ (state.inst /\ state.cls \in {"Idle", "Launch", "Ignitation"})
                => /\ Len(sent') = 1
                   /\ sent'[1].device_type = last'.frame.device_type
                   /\ sent'[1].device_id = last'.frame.device_id
                   /\ sent'[1].operation = last'.frame.operation]_vars

\* C39 witness: a NACK has been answered with one frame in Ignitation while
\* timers are pending and a main-valve ACK is on record.
C39_Witness ==
    /\ Dispatched("NACK")
    /\ state = Instance("Ignitation")
    /\ Len(sent) = 1
    /\ timers # {}
    /\ ign.fuel_ack_time # None

\* C40: Landing can be entered, and in Landing the transition to Landed is
\* taken on handling a FEED of any device kind after which the stored altitude
\* is <= 0, whether or not parachute_deployed has been set; a requested Landed
\* state is installed, and ACK and NACK frames never leave Landing.
C40_TouchdownFromLanding ==
    [][/\ Requested("Landing")' => state' = Instance("Landing")
       /\ Requested("Landed")' => state' = Instance("Landed")
       /\ (/\ state = Instance("Landing")
           /\ Dispatched("FEED")'
           /\ last'.frame.payload # <<>>
           /\ sensors'["altitude"] <= 0)
          => state' = Instance("Landed")
       /\ (state = Instance("Landing") /\ (Dispatched("ACK")' \/ Dispatched("NACK")'))
          => state' = state]_vars

====
